---- MODULE Spec2Model ----
(***************************************************************************)
(* A model of thisper (src/src/thisper.ts): contexts built by provide(),   *)
(* the per-context memo cache (injectCache) and class-mapping cache        *)
(* (mapCache), the process-wide dependent-singleton cache (depInjectCache) *)
(* and the circular-dependency guard (circProtect).                        *)
(*                                                                         *)
(* Objects are numbered: a positive number is an object of the heap, a     *)
(* negative number -c is the DIContext object of context c, and 0 stands   *)
(* for undefined / null.                                                   *)
(***************************************************************************)
EXTENDS Integers, Sequences, FiniteSets, TLC

\* ------------------------------------------------------------------ bounds

\* Contexts that provide() may create beyond defaultDIContext.
MaxCtx == 2
\* Objects that may be allocated beyond the ones the application made itself.
MaxAlloc == 5
\* Calls of ctx.run().
MaxRun == 2
\* Calls of ctx.provide() recorded before one that makes no context.
MaxProvide == 2
\* Calls of ctx.new().
MaxNew == 2
\* Calls of ctx.inject() with an outcome not seen before.
MaxInject == 4

\* ------------------------------------------------- the declared service types

NoType == "undefined"

\* The classes the application declares (the library's inputs).  Each world of
\* Worlds uses some of them.
Types ==
  { "DIContext",
    "Storage", "MemStorage", "Logger", "FriendStorage", "FriendStorageSub",
    "FriendService",
    "Base", "Mid", "SubclassX", "SubclassY",
    "A", "B", "Self", "P", "Q", "R",
    "G", "Svc",
    "Pair",
    "Top", "Left", "Right", "Bottom",
    "Faulty",
    "WeakCache" }

\* `class C extends D`: the superclass of each class (NoType for a root class).
\* Service and Service(options) themselves are not requested and are left out.
Super(C) ==
  CASE C = "MemStorage"       -> "Storage"
    [] C = "FriendStorageSub" -> "FriendStorage"
    [] C = "Mid"              -> "Base"
    [] C = "SubclassX"        -> "Mid"
    [] C = "SubclassY"        -> "Base"
    [] OTHER                  -> NoType

\* `X.prototype instanceof Class`: X is a proper descendant of Class.
RECURSIVE Descends(_, _)
Descends(X, Class) ==
  /\ Super(X) # NoType
  /\ (Super(X) = Class \/ Descends(Super(X), Class))

\* `class C extends WeakMap`: the classes whose instances are WeakMaps.
ExtendsWeakMap(C) == C = "WeakCache"

\* `abstract class C`: the classes declared abstract.  The declaration is
\* TypeScript's and leaves no trace at run time.
IsAbstract(C) == C = "Storage"

\* The static `deps` of a class (inherited by subclasses), when it has one.
HasDeps(C) == C \in {"FriendStorage", "FriendStorageSub", "A", "B", "Self", "P", "Q", "R",
                      "Pair", "Top", "Left", "Right", "Bottom", "Faulty", "WeakCache"}

deps(C) ==
  CASE C \in {"FriendStorage", "FriendStorageSub", "Faulty"} -> <<"Storage">>
    [] C = "A"    -> <<"B">>
    [] C = "B"    -> <<"A">>
    [] C = "Self" -> <<"Self">>
    [] C = "P"    -> <<"Q">>
    [] C = "Q"    -> <<"R">>
    [] C = "R"    -> <<"P">>
    [] C = "Pair" -> <<"Storage", "MemStorage">>
    [] C = "Top"   -> <<"Left", "Right">>
    [] C = "Left"  -> <<"Bottom">>
    [] C = "Right" -> <<"Bottom">>
    [] C = "WeakCache" -> <<"Logger">>
    [] OTHER      -> <<>>

\* The static `construct` of a class: "stateful" is the function Service(options)
\* installs for {stateful: true}, "stateless" is Service.construct, "none" is a
\* plain class, built with `new`.
construct(C) ==
  CASE C \in {"FriendStorage", "FriendStorageSub", "A", "B", "Self", "P", "Q", "R",
              "Pair", "Top", "Left", "Right", "Bottom", "Faulty"} -> "stateful"
    [] C \in {"FriendService", "Svc"} -> "stateless"
    [] OTHER -> "none"

\* `constructor() { super(); throw new Error() }`: the classes whose constructor
\* throws.
ConstructorThrows(C) == C = "Faulty"

\* `C.prototype[InjectedTypeSymbol]`: the class C asks to be resolved as.
InjectedTypeSymbol(C) ==
  CASE C = "G" -> "Svc"
    [] OTHER   -> NoType

\* ------------------------------------------------------------------- the heap

\* The objects the application made with `new` before it called the library:
\* two MemStorage objects, a Logger and a B.
InitialHeap ==
  << [kind |-> "plain", cls |-> "MemStorage", ctx |-> 0, ref |-> 0],
     [kind |-> "plain", cls |-> "MemStorage", ctx |-> 0, ref |-> 0],
     [kind |-> "plain", cls |-> "Logger",     ctx |-> 0, ref |-> 0],
     [kind |-> "plain", cls |-> "B",          ctx |-> 0, ref |-> 0] >>

\* The objects that may be allocated in each world: the four stateful services
\* of the diamond take two objects each, and each decoration takes one.
MaxAllocOf(w) ==
  CASE w = "diamond" -> MaxAlloc + 3
    [] w = "proxy"   -> MaxAlloc + 1
    [] OTHER         -> MaxAlloc

MaxObj(w) == Len(InitialHeap) + MaxAllocOf(w)

\* ------------------------------------------------------------------ providers

ClassProvider(C)    == [kind |-> "class",      cls |-> C,      obj |-> 0, mw |-> ""]
InstanceProvider(o) == [kind |-> "instance",   cls |-> NoType, obj |-> o, mw |-> ""]
Middleware(m)       == [kind |-> "middleware", cls |-> NoType, obj |-> 0, mw |-> m]
\* null as a provider: `typeof null` is "object", so provide() takes the branch
\* of the instances, with a provider that is an instance of no class.
Null                == InstanceProvider(0)
\* A provider that is a number, a string, a boolean or undefined.
Primitive           == [kind |-> "primitive",  cls |-> NoType, obj |-> 0, mw |-> ""]

\* What the application does in each world: the classes it passes to
\* ctx.inject(), ctx.new() and ctx.map(), and the provider lists it passes to
\* ctx.provide().
Worlds == {"friends", "instances", "subclass", "proxy", "mapping", "cycle", "redirect",
           "middleware", "provide", "run", "order", "diamond", "flip", "faulty",
           "bound", "weakmap", "remap", "empty"}

WorldTypes(w) ==
  CASE w = "friends"   -> {"Storage", "FriendStorage"}
    [] w = "instances" -> {"Storage", "Logger"}
    [] w = "subclass"  -> {"Storage", "FriendStorage"}
    [] w = "proxy"     -> {"Storage", "FriendStorage"}
    [] w = "mapping"   -> {"Base"}
    [] w = "cycle"     -> {"A", "B", "Self", "P"}
    [] w = "redirect"  -> {"G", "Svc"}
    [] w = "middleware" -> {"Storage"}
    [] w = "provide"   -> {"Logger", "DIContext"}
    [] w = "run"       -> {"Logger"}
    [] w = "order"     -> {"Pair"}
    [] w = "diamond"   -> {"Top", "Bottom"}
    [] w = "flip"      -> {"Base"}
    [] w = "faulty"    -> {"Faulty", "Self"}
    [] w = "bound"     -> {"Bottom", "Logger"}
    [] w = "weakmap"   -> {"WeakCache"}
    [] w = "remap"     -> {"Base"}
    [] w = "empty"     -> {"Bottom"}

WorldNewTypes(w) ==
  CASE w = "instances" -> {"Logger"}
    [] w = "subclass"  -> {"FriendStorage"}
    [] w = "proxy"     -> {"FriendStorage"}
    [] w = "flip"      -> {"Base"}
    [] OTHER           -> {}

WorldMapTypes(w) ==
  CASE w = "mapping"   -> {"Mid"}
    [] w = "flip"      -> {"Base"}
    [] w = "remap"     -> {"Base", "Mid", "SubclassX"}
    [] OTHER           -> {}

WorldProviders(w) ==
  CASE w = "friends"   -> { <<InstanceProvider(1)>>, <<InstanceProvider(2)>>,
                            <<InstanceProvider(3)>> }
    [] w = "instances" -> { <<InstanceProvider(1), InstanceProvider(3)>> }
    [] w = "subclass"  -> { <<InstanceProvider(1)>>,
                            <<InstanceProvider(1), ClassProvider("FriendStorageSub")>>,
                            <<ClassProvider("MemStorage")>> }
    [] w = "proxy"     -> { <<InstanceProvider(1)>>,
                            <<Middleware("Proxy"), InstanceProvider(1)>> }
    [] w = "mapping"   -> { <<ClassProvider("SubclassX")>>,
                            <<ClassProvider("SubclassX"), ClassProvider("SubclassY")>>,
                            <<ClassProvider("SubclassY"), ClassProvider("SubclassX")>> }
    [] w = "cycle"     -> { <<InstanceProvider(3)>>, <<InstanceProvider(4)>> }
    [] w = "redirect"  -> { <<InstanceProvider(3)>> }
    [] w = "middleware" -> { <<ClassProvider("MemStorage"), Middleware("Proxy")>>,
                             <<InstanceProvider(1), Middleware("Proxy")>> }
    [] w = "provide"   -> { <<>>, <<Null>>, <<Primitive>>, <<InstanceProvider(3)>>,
                            <<InstanceProvider(3), Primitive>> }
    [] w = "run"       -> { <<InstanceProvider(3)>> }
    [] w = "order"     -> { <<Middleware("Pin12")>>, <<Middleware("Pin21")>> }
    [] w = "diamond"   -> { <<InstanceProvider(3)>> }
    [] w = "flip"      -> { <<Middleware("Flip")>> }
    [] w = "faulty"    -> { <<InstanceProvider(1)>> }
    [] w = "bound"     -> { <<InstanceProvider(3)>> }
    [] w = "weakmap"   -> { <<InstanceProvider(3)>> }
    [] w = "empty"     -> { <<Middleware("Proxy")>>, <<InstanceProvider(3)>> }
    [] w = "remap"     -> { <<ClassProvider("SubclassX"), ClassProvider("Mid")>>,
                            <<ClassProvider("Mid"), ClassProvider("SubclassX")>>,
                            <<ClassProvider("SubclassY")>> }

\* The functions the application passes to ctx.run(): `function () { return
\* this(cls) }` in the forms of a function expression, an arrow function and an
\* async function, and a value that is no function.
WorldFns(w) ==
  CASE w = "run"       -> { [form |-> f, cls |-> "Logger"] :
                              f \in {"function", "arrow", "async", "number"} }
    [] OTHER           -> {}

\* The classes the application passes to an instance it got from ctx.inject,
\* calling it as `instance(Class)`, which is this(Class) inside its methods.
WorldCallTypes(w) ==
  CASE w = "bound"     -> {"Logger"}
    [] OTHER           -> {}

\* The contexts provide() may create in each world.
MaxCtxOf(w) == IF w = "order" THEN MaxCtx + 1 ELSE MaxCtx

\* ------------------------------------------------------------------ the state

VARIABLES
  world,           \* what the application declares and passes in (fixed at Init)
  ctxs,            \* ctxs[c]: the providers folded into the hooks of context c
  heap,            \* every object made so far
  injectCache,     \* injectCache[c][Class]: the memo cache of context c
  mapCache,        \* mapCache[c][Class]: the class-mapping cache of context c
  mapCalls,        \* how often the mapClass of context c was called for Class
  depInjectCache,  \* the module-level cache of stateful singletons
  circProtect,     \* the module-level set of classes being resolved
  returned,        \* history: what each ctx.inject(Class) call returned
  thrown,          \* history: what each ctx.inject(Class) call threw
  resolved,        \* history: every lookup of depInjectCache that ended, with its key
  made,            \* history: what each ctx.new(Class) call returned
  provided,        \* history: what each ctx.provide(...providers) call returned or threw
  ran,             \* history: what each ctx.run(fn) call returned or threw
  called,          \* history: what each instance(Class) call resolved, and on which context
  traced           \* history: the steps of each ctx.inject(Class) call past the memo cache

vars == <<world, ctxs, heap, injectCache, mapCache, mapCalls, depInjectCache, circProtect,
          returned, thrown, resolved, made, provided, ran, called, traced>>

\* The depth of the JavaScript call stack: a deeper recursion ends in a RangeError.
MaxStack == 6

\* A WeakMap as a function of the keys that have an entry: get answers 0
\* (undefined) for any other key, and a key is in DOMAIN when get is defined.
WeakMapGet(m, k) == IF k \in DOMAIN m THEN m[k] ELSE 0

WeakMapSet(m, k, v) == [x \in (DOMAIN m) \cup {k} |-> IF x = k THEN v ELSE m[x]]

\* ---------------------------------------------------------------- the hooks
\* The hooks of a context are the fold of its providers over the default hooks:
\* hooks[n] is the provider folded in last, and n = 0 is defaultDIContext's.

\* A fold in which the provider given first wins.
mapClass_OldestWins(hooks, n, Class) ==
  LET S == {i \in 1 .. n : /\ hooks[i].kind = "class"
                           /\ (hooks[i].cls = Class \/ Descends(hooks[i].cls, Class))}
  IN IF S = {} THEN Class ELSE hooks[CHOOSE i \in S : \A j \in S : i <= j].cls

\* A fold whose class providers take over their proper superclasses only,
\* without the `provider === Class` test.
mapClass_StrictDescendant(hooks, n, Class) ==
  LET S == {i \in 1 .. n : /\ hooks[i].kind = "class"
                           /\ Descends(hooks[i].cls, Class)}
  IN IF S = {} THEN Class ELSE hooks[CHOOSE i \in S : \A j \in S : i >= j].cls

\* The "Flip" middleware is `next => { let n = 0; return {mapClass: C =>
\* C === Base ? (n++ === 0 ? SubclassX : SubclassY) : next.mapClass(C)} }`.
\* mapClass is what the chain answers when it is called for Class the first
\* time, mapClassAgain what it answers on any later call.
RECURSIVE mapClass(_, _, _)
mapClass(hooks, n, Class) ==
  IF n = 0 THEN Class
  ELSE LET provider == hooks[n] IN
       IF /\ provider.kind = "class"
          /\ (provider.cls = Class \/ Descends(provider.cls, Class))
       THEN provider.cls
       ELSE IF provider.kind = "middleware" /\ provider.mw = "Flip" /\ Class = "Base"
       THEN "SubclassX"
       ELSE mapClass(hooks, n - 1, Class)

RECURSIVE mapClassAgain(_, _, _)
mapClassAgain(hooks, n, Class) ==
  IF n = 0 THEN Class
  ELSE LET provider == hooks[n] IN
       IF /\ provider.kind = "class"
          /\ (provider.cls = Class \/ Descends(provider.cls, Class))
       THEN provider.cls
       ELSE IF provider.kind = "middleware" /\ provider.mw = "Flip" /\ Class = "Base"
       THEN "SubclassY"
       ELSE mapClassAgain(hooks, n - 1, Class)

\* `o instanceof Class` for an object o of the heap h.
instanceOf(h, o, Class) == o > 0 /\ (h[o].cls = Class \/ Descends(h[o].cls, Class))

\* The "Pin12" middleware is `next => ({getInstance: C => C === Storage ? mem1 :
\* C === MemStorage ? mem2 : next.getInstance(C)})`, and "Pin21" the same with
\* mem1 and mem2 exchanged: what the middleware mw answers for Class, 0 where
\* it asks the previous getInstance.
Pinned(mw, Class) ==
  CASE mw = "Pin12" /\ Class = "Storage"    -> 1
    [] mw = "Pin12" /\ Class = "MemStorage" -> 2
    [] mw = "Pin21" /\ Class = "Storage"    -> 2
    [] mw = "Pin21" /\ Class = "MemStorage" -> 1
    [] OTHER                                -> 0

RECURSIVE getInstance(_, _, _)

\* A fold in which a middleware that returns no getInstance resets it.
getInstance_ResetByMiddleware(hooks, n, Class) ==
  IF n = 0 THEN 0
  ELSE LET provider == hooks[n] IN
       IF provider.kind = "instance"
       THEN (IF instanceOf(heap, provider.obj, Class) THEN provider.obj ELSE 0)
       ELSE IF provider.kind = "middleware" THEN 0
       ELSE getInstance(hooks, n - 1, Class)

getInstance(hooks, n, Class) ==
  IF n = 0 THEN 0
  ELSE LET provider == hooks[n] IN
       IF provider.kind = "instance"
       THEN (IF instanceOf(heap, provider.obj, Class) THEN provider.obj ELSE 0)
       ELSE IF provider.kind = "middleware" /\ Pinned(provider.mw, Class) # 0
       THEN Pinned(provider.mw, Class)
       ELSE getInstance(hooks, n - 1, Class)

\* A call's outcome: the state it leaves, and the value returned or the error
\* thrown (err names it, cls is the class it names).
Ret(st, v)      == [st |-> st, ok |-> TRUE,  val |-> v, err |-> "",  cls |-> NoType, key |-> <<>>]
Throw(st, e, C) == [st |-> st, ok |-> FALSE, val |-> 0, err |-> e,   cls |-> C,      key |-> <<>>]

Alloc(st, obj) == [st EXCEPT !.heap = Append(@, obj)]

Record(st, e) == [st EXCEPT !.log = Append(@, e)]

\* `const x = v; return K(x)`: v is evaluated once, and K sees its value.
Do(v, K(_)) == CHOOSE y \in {K(x) : x \in {v}} : TRUE

\* The "Proxy" middleware is `next => ({createProxy: x => proxyOf(next.createProxy(x))})`,
\* where proxyOf(y) is a new Proxy whose [IsProxyFor] is y.
RECURSIVE createProxy(_, _, _, _)
createProxy(hooks, n, st, instance) ==
  IF n = 0 THEN Ret(st, instance)
  ELSE LET provider == hooks[n] IN
       IF provider.kind = "middleware" /\ provider.mw = "Proxy"
       THEN Do(createProxy(hooks, n - 1, st, instance), LAMBDA inner :
            Do(Alloc(inner.st, [kind |-> "proxy", cls |-> inner.st.heap[inner.val].cls,
                                ctx |-> 0, ref |-> inner.val]), LAMBDA st1 :
            Ret(st1, Len(st1.heap))))
       ELSE createProxy(hooks, n - 1, st, instance)

\* i[IsProxyFor]: a proxy made by a middleware answers with what it wraps; the
\* wrapper of a stateful service forwards the read to the object it wraps.
RECURSIVE IsProxyFor(_, _)

\* A wrapper that answers the read with the object it wraps.
IsProxyFor_OwnReference(h, i) ==
  IF i <= 0 THEN 0
  ELSE IF h[i].kind \in {"proxy", "wrapper"} THEN h[i].ref ELSE 0

IsProxyFor(h, i) ==
  IF i <= 0 THEN 0
  ELSE CASE h[i].kind = "proxy"   -> h[i].ref
         [] h[i].kind = "wrapper" -> IsProxyFor(h, h[i].ref)
         [] OTHER                 -> 0

RECURSIVE getBackingInstance(_, _)

\* A canonicalizer that follows one back-reference only.
getBackingInstance_OneStep(h, i) ==
  LET backer == IsProxyFor(h, i) IN
  IF backer # 0 THEN backer ELSE i

getBackingInstance(h, i) ==
  LET backer == IsProxyFor(h, i) IN
  IF backer # 0 THEN getBackingInstance(h, backer) ELSE i

\* ------------------------------------------------------ createDI: map and new

\* The hooks' mapClass(Class), called by context c: the call is counted.
CallMapClass(st, c, Class) ==
  LET n == WeakMapGet(st.mapCalls, <<c, Class>>) IN
  [st  |-> [st EXCEPT !.mapCalls = WeakMapSet(@, <<c, Class>>, n + 1)],
   val |-> IF n = 0 THEN mapClass(ctxs[c], Len(ctxs[c]), Class)
           ELSE mapClassAgain(ctxs[c], Len(ctxs[c]), Class)]

\* A map that asks the hooks every time.
map_Uncached(st, c, Class) == CallMapClass(st, c, Class)

map(st, c, Class) ==
  IF Class \in DOMAIN st.mapCache[c]
  THEN [st |-> st, val |-> st.mapCache[c][Class]]
  ELSE Do(CallMapClass(st, c, Class), LAMBDA m :
       [st |-> [m.st EXCEPT !.mapCache[c] = WeakMapSet(@, Class, m.val)], val |-> m.val])

\* A construction that gives every service the inject of defaultDIContext.
Construct_DefaultInjector(st, c, MappedClass) ==
  CASE ConstructorThrows(MappedClass) -> Throw(st, "Error", MappedClass)
    [] construct(MappedClass) = "stateless" ->
         LET st1 == Alloc(st, [kind |-> "service", cls |-> MappedClass, ctx |-> 1, ref |-> 0])
         IN Ret(st1, Len(st1.heap))
    [] construct(MappedClass) = "stateful" ->
         LET st1 == Alloc(st, [kind |-> "plain", cls |-> MappedClass, ctx |-> 0, ref |-> 0])
             st2 == Alloc(st1, [kind |-> "wrapper", cls |-> MappedClass, ctx |-> 1,
                                ref |-> Len(st1.heap)])
         IN Ret(st2, Len(st2.heap))
    [] OTHER ->
         LET st1 == Alloc(st, [kind |-> "plain", cls |-> MappedClass, ctx |-> 0, ref |-> 0])
         IN Ret(st1, Len(st1.heap))

\* MappedClass.construct(ctx, args), or `new MappedClass(...args)` without one.
Construct(st, c, MappedClass) ==
  CASE ConstructorThrows(MappedClass) -> Throw(st, "Error", MappedClass)
    [] construct(MappedClass) = "stateless" ->
         LET st1 == Alloc(st, [kind |-> "service", cls |-> MappedClass, ctx |-> c, ref |-> 0])
         IN Ret(st1, Len(st1.heap))
    [] construct(MappedClass) = "stateful" ->
         LET st1 == Alloc(st, [kind |-> "plain", cls |-> MappedClass, ctx |-> 0, ref |-> 0])
             st2 == Alloc(st1, [kind |-> "wrapper", cls |-> MappedClass, ctx |-> c,
                                ref |-> Len(st1.heap)])
         IN Ret(st2, Len(st2.heap))
    [] OTHER ->
         LET st1 == Alloc(st, [kind |-> "plain", cls |-> MappedClass, ctx |-> 0, ref |-> 0])
         IN Ret(st1, Len(st1.heap))

\* A construction that memoizes what it built.
_new_Memoizing(st, c, Class) ==
  Do(map(st, c, Class), LAMBDA m :
  Do(Construct(m.st, c, m.val), LAMBDA built :
  IF ~built.ok THEN built ELSE
  Do(createProxy(ctxs[c], Len(ctxs[c]), built.st, built.val), LAMBDA r :
  Ret([r.st EXCEPT !.injectCache[c] = WeakMapSet(@, Class, r.val)], r.val))))

_new(st, c, Class) ==
  Do(map(st, c, Class), LAMBDA m :
  Do(Construct(m.st, c, m.val), LAMBDA built :
  IF ~built.ok THEN built ELSE
  Do(createProxy(ctxs[c], Len(ctxs[c]), built.st, built.val), LAMBDA r :
  Ret(Record(r.st, [ev |-> "new", c |-> c, cls |-> Class, mapped |-> m.val,
                    key |-> <<>>, val |-> r.val]), r.val))))

\* -------------------------------------------- the dependent-singleton cache
\* depInjectCache is a WeakMap of WeakMaps, one level per dependency.  Here it is
\* a function of the paths that have an entry: the entry at [cls |-> C, key |-> k]
\* is what k leads to under depInjectCache.get(C), WeakMapNode for a nested
\* WeakMap and an object for a stored instance.

WeakMapNode == 0

Path(C, k) == [cls |-> C, key |-> k]

Get(trie, C, k) == IF Path(C, k) \in DOMAIN trie THEN trie[Path(C, k)] ELSE -1

\* `x instanceof WeakMap`, for x a nested WeakMap of the cache or an object of
\* the heap: the instances of a class that extends WeakMap are WeakMaps too.
IsWeakMap(heap_, x) ==
  \/ x = WeakMapNode
  \/ x > 0 /\ ExtendsWeakMap(heap_[x].cls)

IsPrefix(k, j) == Len(k) <= Len(j) /\ SubSeq(j, 1, Len(k)) = k

\* A lookup that takes any instance stored for Class, whatever its key.
Walk_AnyKey(st, Class, depInstances, i) ==
  LET trie   == st.depInjectCache
      stored == {p \in DOMAIN trie : p.cls = Class /\ trie[p] # WeakMapNode} IN
  IF stored = {} THEN 0 ELSE trie[CHOOSE p \in stored : TRUE]

\* A lookup that passes over the first dependency.
Walk_OffByOne(st, Class, depInstances, i) ==
  LET x == Get(st.depInjectCache, Class, SubSeq(depInstances, 2, Len(depInstances))) IN
  IF x \in {-1, WeakMapNode} THEN 0 ELSE x

\* The `while (x && x instanceof WeakMap)` loop, with x the node at (Class, the
\* first i of depInstances): the instance found, 0 for none, -1 for the
\* "INTERNAL: Deps inconsistency!" error.
RECURSIVE Walk(_, _, _, _)
Walk(st, Class, depInstances, i) ==
  LET x == Get(st.depInjectCache, Class, SubSeq(depInstances, 1, i)) IN
  IF x = -1 THEN 0
  ELSE IF ~IsWeakMap(st.heap, x) THEN x
  ELSE IF i >= Len(depInstances) THEN -1
  ELSE Walk(st, Class, depInstances, i + 1)

\* A store that stores nothing.
storeDependentInjection_Dropped(st, C, instance, depInstances) == st

storeDependentInjection(st, C, instance, depInstances) ==
  LET trie  == st.depInjectCache
      l     == Len(depInstances)
      \* the WeakMaps the loop finds or makes on the way down
      maps  == {Path(C, SubSeq(depInstances, 1, i)) : i \in 0 .. (l - 1)}
      leaf  == Path(C, depInstances)
      \* what hung below a node that is replaced is no longer reachable
      lost  == {p \in DOMAIN trie :
                  /\ p.cls = C
                  /\ \/ IsPrefix(depInstances, p.key) /\ p.key # depInstances
                     \/ \E m \in maps : /\ Get(trie, C, m.key) # -1
                                        /\ ~IsWeakMap(st.heap, Get(trie, C, m.key))
                                        /\ IsPrefix(m.key, p.key) /\ p.key # m.key}
      dom   == ((DOMAIN trie) \ lost) \cup maps \cup {leaf}
  IN [st EXCEPT !.depInjectCache =
        [p \in dom |-> IF p = leaf THEN getBackingInstance(st.heap, instance)
                       ELSE IF p \in maps
                       THEN IF Get(trie, C, p.key) # -1 /\ IsWeakMap(st.heap, Get(trie, C, p.key))
                            THEN trie[p] ELSE WeakMapNode
                       ELSE trie[p]]]

\* ------------------------------------------------------ createDI: the resolver

\* The class ctx.inject(GivenClass) resolves.
Canon(GivenClass) ==
  IF InjectedTypeSymbol(GivenClass) # NoType THEN InjectedTypeSymbol(GivenClass)
  ELSE GivenClass

RECURSIVE inject(_, _, _), _inject(_, _, _), mapDeps(_, _, _, _, _),
          findDependentInjection(_, _, _)

\* A map that resolves the dependencies from the last to the first.
mapDeps_Reversed(st, c, ds, i, depInstances) ==
  IF i > Len(ds) THEN [Ret(st, 0) EXCEPT !.key = depInstances]
  ELSE Do(inject(st, c, ds[Len(ds) + 1 - i]), LAMBDA r :
       IF ~r.ok THEN r
       ELSE mapDeps(r.st, c, ds, i + 1,
                    <<getBackingInstance(r.st.heap, r.val)>> \o depInstances))

\* deps.map((dep) => getBackingInstance(inject(dep))), from the i-th dependency on.
mapDeps(st, c, ds, i, depInstances) ==
  IF i > Len(ds) THEN [Ret(st, 0) EXCEPT !.key = depInstances]
  ELSE Do(inject(st, c, ds[i]), LAMBDA r :
       IF ~r.ok THEN r
       ELSE mapDeps(r.st, c, ds, i + 1,
                    Append(depInstances, getBackingInstance(r.st.heap, r.val))))

findDependentInjection(st, c, Class) ==
  Do(Get(st.depInjectCache, Class, <<>>), LAMBDA x :
  Do(mapDeps(st, c, deps(Class), 1, <<>>), LAMBDA d :
  IF ~d.ok THEN d
  ELSE IF x = -1 THEN [Ret(d.st, 0) EXCEPT !.key = d.key]
  ELSE Do(Walk(d.st, Class, d.key, 0), LAMBDA found :
       IF found = -1 THEN Throw(d.st, "INTERNAL: Deps inconsistency!", Class)
       ELSE [Ret(d.st, found) EXCEPT !.key = d.key])))

\* A resolution that makes the WeakMap of the class before it resolves the
\* dependencies.
Resolve_EagerRoot(st, c, Class) ==
  Do(IF Get(st.depInjectCache, Class, <<>>) = -1
     THEN [st EXCEPT !.depInjectCache = WeakMapSet(@, Path(Class, <<>>), WeakMapNode)]
     ELSE st, LAMBDA st0 :
  Do(findDependentInjection(st0, c, Class), LAMBDA f :
  IF ~f.ok THEN f
  ELSE IF f.val = 0
  THEN Do(_new(f.st, c, Class), LAMBDA n :
       IF ~n.ok THEN n ELSE
       Do(storeDependentInjection(n.st, Class, n.val, f.key), LAMBDA st1 :
       Ret([st1 EXCEPT !.injectCache[c] = WeakMapSet(@, Class, n.val)], n.val)))
  ELSE Ret([f.st EXCEPT !.injectCache[c] = WeakMapSet(@, Class, f.val)], f.val)))

\* The body of the try block of _inject.
Resolve(st, c, Class) ==
  Do(findDependentInjection(st, c, Class), LAMBDA f :
  IF ~f.ok THEN f
  ELSE IF f.val = 0
  THEN Do(_new(f.st, c, Class), LAMBDA n :
       IF ~n.ok THEN n ELSE
       Do(storeDependentInjection(n.st, Class, n.val, f.key), LAMBDA st1 :
       Do(Record(st1, [ev |-> "miss", c |-> c, cls |-> Class, mapped |-> NoType,
                       key |-> f.key, val |-> n.val]), LAMBDA st2 :
       Ret([st2 EXCEPT !.injectCache[c] = WeakMapSet(@, Class, n.val)], n.val))))
  ELSE Do(Record(f.st, [ev |-> "hit", c |-> c, cls |-> Class, mapped |-> NoType,
                        key |-> f.key, val |-> f.val]), LAMBDA st1 :
       Ret([st1 EXCEPT !.injectCache[c] = WeakMapSet(@, Class, f.val)], f.val)))

\* A resolver without the circProtect check.
_inject_NoGuard(st, c, GivenClass) ==
  LET Class    == Canon(GivenClass)
      instance == getInstance(ctxs[c], Len(ctxs[c]), Class)
  IN IF instance # 0
     THEN Do(createProxy(ctxs[c], Len(ctxs[c]), st, instance), LAMBDA p :
          Ret([p.st EXCEPT !.injectCache[c] = WeakMapSet(@, Class, p.val)], p.val))
     ELSE IF HasDeps(Class)
     THEN Resolve(st, c, Class)
     ELSE Do(_new(st, c, Class), LAMBDA n :
          IF ~n.ok THEN n ELSE
          Ret([n.st EXCEPT !.injectCache[c] = WeakMapSet(@, Class, n.val)], n.val))

\* A resolver that takes any resolution in progress for a cycle.
_inject_AnyActive(st, c, GivenClass) ==
  LET Class    == Canon(GivenClass)
      instance == getInstance(ctxs[c], Len(ctxs[c]), Class)
  IN IF instance # 0
     THEN Do(createProxy(ctxs[c], Len(ctxs[c]), st, instance), LAMBDA p :
          Do(Record(p.st, [ev |-> "instance", c |-> c, cls |-> Class,
                           mapped |-> NoType, key |-> <<>>, val |-> p.val]), LAMBDA st1 :
          Ret([st1 EXCEPT !.injectCache[c] = WeakMapSet(@, Class, p.val)], p.val)))
     ELSE IF HasDeps(Class)
     THEN IF st.circProtect # {}
          THEN Throw(st, "Circular deps", Class)
          ELSE Do(st.circProtect \cup {Class}, LAMBDA active :
               Do([st EXCEPT !.circProtect = active,
                             !.maxActive = IF Cardinality(active) > @
                                           THEN Cardinality(active) ELSE @], LAMBDA st1 :
               Do(Resolve(st1, c, Class), LAMBDA r :
               [r EXCEPT !.st.circProtect = @ \ {Class}])))
     ELSE Do(_new(st, c, Class), LAMBDA n :
          IF ~n.ok THEN n ELSE
          Ret([n.st EXCEPT !.injectCache[c] = WeakMapSet(@, Class, n.val)], n.val))

\* A resolver that takes a class without deps for one with no dependency.
_inject_AllStateful(st, c, GivenClass) ==
  LET Class    == Canon(GivenClass)
      instance == getInstance(ctxs[c], Len(ctxs[c]), Class)
  IN IF instance # 0
     THEN Do(createProxy(ctxs[c], Len(ctxs[c]), st, instance), LAMBDA p :
          Do(Record(p.st, [ev |-> "instance", c |-> c, cls |-> Class,
                           mapped |-> NoType, key |-> <<>>, val |-> p.val]), LAMBDA st1 :
          Ret([st1 EXCEPT !.injectCache[c] = WeakMapSet(@, Class, p.val)], p.val)))
     ELSE IF Class \in st.circProtect
          THEN Throw(st, "Circular deps", Class)
          ELSE Do(st.circProtect \cup {Class}, LAMBDA active :
               Do([st EXCEPT !.circProtect = active,
                             !.maxActive = IF Cardinality(active) > @
                                           THEN Cardinality(active) ELSE @], LAMBDA st1 :
               Do(Resolve(st1, c, Class), LAMBDA r :
               [r EXCEPT !.st.circProtect = @ \ {Class}])))

\* A resolver that releases circProtect on a normal return only.
_inject_NoFinally(st, c, GivenClass) ==
  LET Class    == Canon(GivenClass)
      instance == getInstance(ctxs[c], Len(ctxs[c]), Class)
  IN IF instance # 0
     THEN Do(createProxy(ctxs[c], Len(ctxs[c]), st, instance), LAMBDA p :
          Ret([p.st EXCEPT !.injectCache[c] = WeakMapSet(@, Class, p.val)], p.val))
     ELSE IF HasDeps(Class)
     THEN IF Class \in st.circProtect
          THEN Throw(st, "Circular deps", Class)
          ELSE Do([st EXCEPT !.circProtect = @ \cup {Class},
                             !.maxActive = IF Cardinality(st.circProtect) + 1 > @
                                           THEN Cardinality(st.circProtect) + 1 ELSE @],
                  LAMBDA st1 :
               Do(Resolve(st1, c, Class), LAMBDA r :
               IF r.ok THEN [r EXCEPT !.st.circProtect = @ \ {Class}] ELSE r))
     ELSE Do(_new(st, c, Class), LAMBDA n :
          IF ~n.ok THEN n ELSE
          Ret([n.st EXCEPT !.injectCache[c] = WeakMapSet(@, Class, n.val)], n.val))

\* A resolver that takes an empty deps list for no deps list.
_inject_EmptyDepsFalsy(st, c, GivenClass) ==
  LET Class    == Canon(GivenClass)
      instance == getInstance(ctxs[c], Len(ctxs[c]), Class)
  IN IF instance # 0
     THEN Do(createProxy(ctxs[c], Len(ctxs[c]), st, instance), LAMBDA p :
          Do(Record(p.st, [ev |-> "instance", c |-> c, cls |-> Class,
                           mapped |-> NoType, key |-> <<>>, val |-> p.val]), LAMBDA st1 :
          Ret([st1 EXCEPT !.injectCache[c] = WeakMapSet(@, Class, p.val)], p.val)))
     ELSE IF HasDeps(Class) /\ deps(Class) # <<>>
     THEN IF Class \in st.circProtect
          THEN Throw(st, "Circular deps", Class)
          ELSE Do(st.circProtect \cup {Class}, LAMBDA active :
               Do([st EXCEPT !.circProtect = active,
                             !.maxActive = IF Cardinality(active) > @
                                           THEN Cardinality(active) ELSE @], LAMBDA st1 :
               Do(Resolve(st1, c, Class), LAMBDA r :
               [r EXCEPT !.st.circProtect = @ \ {Class}])))
     ELSE Do(_new(st, c, Class), LAMBDA n :
          IF ~n.ok THEN n ELSE
          Ret([n.st EXCEPT !.injectCache[c] = WeakMapSet(@, Class, n.val)], n.val))

_inject(st, c, GivenClass) ==
  LET Class    == Canon(GivenClass)
      instance == getInstance(ctxs[c], Len(ctxs[c]), Class)
  IN IF instance # 0
     THEN Do(createProxy(ctxs[c], Len(ctxs[c]), st, instance), LAMBDA p :
          Do(Record(p.st, [ev |-> "instance", c |-> c, cls |-> Class,
                           mapped |-> NoType, key |-> <<>>, val |-> p.val]), LAMBDA st1 :
          Ret([st1 EXCEPT !.injectCache[c] = WeakMapSet(@, Class, p.val)], p.val)))
     ELSE IF HasDeps(Class)
     THEN IF Class \in st.circProtect
          THEN Throw(st, "Circular deps", Class)
          ELSE Do(st.circProtect \cup {Class}, LAMBDA active :
               Do([st EXCEPT !.circProtect = active,
                             !.maxActive = IF Cardinality(active) > @
                                           THEN Cardinality(active) ELSE @], LAMBDA st1 :
               Do(Resolve(st1, c, Class), LAMBDA r :
               [r EXCEPT !.st.circProtect = @ \ {Class}])))
     ELSE Do(_new(st, c, Class), LAMBDA n :
          IF ~n.ok THEN n ELSE
          Ret([n.st EXCEPT !.injectCache[c] = WeakMapSet(@, Class, n.val)], n.val))

\* The function createInject() returns: the memo cache first, then _inject.
inject(st, c, Class) ==
  IF st.depth >= MaxStack THEN Throw(st, "RangeError", Class)
  ELSE Do([st EXCEPT !.depth = @ + 1,
                     !.maxDepth = IF @ < st.depth + 1 THEN st.depth + 1 ELSE @], LAMBDA st1 :
       Do(Record(st1, [ev |-> "call", c |-> c, cls |-> Class, mapped |-> NoType,
                       key |-> <<>>, val |-> 0]), LAMBDA st2 :
       Do(IF WeakMapGet(st2.injectCache[c], Class) # 0
          THEN Ret(Record(st2, [ev |-> "memo", c |-> c, cls |-> Class, mapped |-> NoType,
                                key |-> <<>>, val |-> st2.injectCache[c][Class]]),
                   st2.injectCache[c][Class])
          ELSE _inject(st2, c, Class), LAMBDA r :
       [r EXCEPT !.st.depth = st.depth])))

\* ------------------------------------------------------------------- actions

Start == [heap |-> heap, injectCache |-> injectCache, mapCache |-> mapCache,
          mapCalls |-> mapCalls,
          depInjectCache |-> depInjectCache, circProtect |-> circProtect,
          log |-> <<>>, depth |-> 0, maxDepth |-> 0, maxActive |-> 0]

Events(r, evs) == {r.st.log[i] : i \in {j \in DOMAIN r.st.log : r.st.log[j].ev \in evs}}

Commit(r) ==
  /\ Len(r.st.heap) <= MaxObj(world)
  /\ heap' = r.st.heap
  /\ injectCache' = r.st.injectCache
  /\ mapCache' = r.st.mapCache
  /\ mapCalls' = r.st.mapCalls
  /\ depInjectCache' = r.st.depInjectCache
  /\ circProtect' = r.st.circProtect
  /\ resolved' = resolved \cup {[c |-> e.c, cls |-> e.cls, key |-> e.key, val |-> e.val,
                                 hit |-> e.ev = "hit"] : e \in Events(r, {"hit", "miss"})}

\* A provide that writes the new hooks into the contexts it derives from.
createDI_InPlace(hooks) ==
  /\ ctxs' = Append([i \in DOMAIN ctxs |-> IF IsPrefix(ctxs[i], hooks) THEN hooks
                                           ELSE ctxs[i]], hooks)
  /\ injectCache' = Append(injectCache, [T \in {"DIContext"} |-> -(Len(ctxs) + 1)])
  /\ mapCache' = Append(mapCache, [T \in {} |-> NoType])

\* A createDI whose context starts with the memo entries of the first context.
createDI_SharedMemo(hooks) ==
  /\ ctxs' = Append(ctxs, hooks)
  /\ injectCache' = Append(injectCache,
                           [T \in DOMAIN injectCache[1] |->
                              IF T = "DIContext" THEN -(Len(ctxs) + 1) ELSE injectCache[1][T]])
  /\ mapCache' = Append(mapCache, [T \in {} |-> NoType])

\* A createDI that memoizes the first context for DIContext.
createDI_DefaultContext(hooks) ==
  /\ ctxs' = Append(ctxs, hooks)
  /\ injectCache' = Append(injectCache, [T \in {"DIContext"} |-> -1])
  /\ mapCache' = Append(mapCache, [T \in {} |-> NoType])

\* createDI(hooks): a new context, with its own empty caches.
createDI(hooks) ==
  /\ ctxs' = Append(ctxs, hooks)
  /\ injectCache' = Append(injectCache, [T \in {"DIContext"} |-> -(Len(ctxs) + 1)])
  /\ mapCache' = Append(mapCache, [T \in {} |-> NoType])

Init ==
  /\ world \in Worlds
  /\ ctxs = << <<>> >>
  /\ heap = InitialHeap
  /\ injectCache = << [T \in {"DIContext"} |-> -1] >>
  /\ mapCache = << [T \in {} |-> NoType] >>
  /\ mapCalls = [k \in {} |-> 0]
  /\ depInjectCache = [p \in {} |-> 0]
  /\ circProtect = {}
  /\ returned = {}
  /\ thrown = {}
  /\ resolved = {}
  /\ made = {}
  /\ provided = {}
  /\ ran = {}
  /\ called = {}
  /\ traced = {}

\* The call inject(Class) of context c, with outcome r.
InjectOn(c, Class, r) ==
  /\ Cardinality(returned) + Cardinality(thrown) < MaxInject
  /\ Commit(r)
  /\ returned' = IF r.ok THEN returned \cup {[c |-> c, cls |-> Class, val |-> r.val]}
                 ELSE returned
  /\ thrown' = IF r.ok THEN thrown
               ELSE thrown \cup {[c |-> c, cls |-> Class, err |-> r.err, errcls |-> r.cls,
                                  depth |-> r.st.maxDepth, active |-> r.st.maxActive]}
  /\ traced' = IF Events(r, {"memo"}) # {} /\ Len(r.st.log) = 2 THEN traced
               ELSE traced \cup {[c |-> c, cls |-> Class, ok |-> r.ok, val |-> r.val,
                                  err |-> r.err, errcls |-> r.cls,
                                  active |-> r.st.maxActive, log |-> r.st.log]}
  /\ UNCHANGED <<world, ctxs, made, provided, ran>>

\* ctx.inject(Class), which is also this(Class) inside ctx.run(fn).
Inject(c, Class) ==
  \E r \in {inject(Start, c, Class)} :
  /\ InjectOn(c, Class, r)
  /\ UNCHANGED called

\* instance(Class), for an instance that ctx.inject handed out: the wrapper of
\* a stateful service applies the inject of the context its construct
\* function was given, and a stateless service is the function createInject()
\* of that context returned; a proxy of a middleware passes the call on.
CallInstance(o, Class) ==
  LET target == getBackingInstance(heap, o) IN
  /\ target > 0
  /\ heap[target].kind \in {"wrapper", "service"}
  /\ \E r \in {inject(Start, heap[target].ctx, Class)} :
       /\ InjectOn(heap[target].ctx, Class, r)
       /\ called' = called \cup {[o |-> o, cls |-> Class, c |-> heap[target].ctx,
                                  ok |-> r.ok, val |-> r.val]}

\* ctx.new(Class, ...args).
New(c, Class) ==
  \E r \in {_new(Start, c, Class)} :
  /\ Cardinality(made) < MaxNew
  /\ Commit(r)
  /\ r.ok
  /\ made' = made \cup {[c |-> c, cls |-> Class, val |-> r.val]}
  /\ UNCHANGED <<world, ctxs, returned, thrown, provided, ran, called, traced>>

\* ctx.map(Class).
Map(c, Class) ==
  /\ mapCache' = map(Start, c, Class).st.mapCache
  /\ mapCalls' = map(Start, c, Class).st.mapCalls
  /\ UNCHANGED <<world, ctxs, heap, injectCache, depInjectCache, circProtect,
                 returned, thrown, resolved, made, provided, ran, called, traced>>

\* ctx.provide(...providers): the providers are folded in from left to right,
\* each by a createDI, and only the last context made is returned: the
\* receiver itself when there is no provider.  A provider that is neither a
\* function nor of type "object" ends the fold with a TypeError; the contexts
\* made for the providers before it are dropped.
Provide(c, providers) ==
  IF \E i \in DOMAIN providers : providers[i].kind = "primitive"
  THEN /\ Cardinality(provided) < MaxProvide
       /\ provided' = provided \cup
            {[c |-> c, providers |-> providers, ok |-> FALSE, err |-> "TypeError",
              ctx |-> 0, memo |-> {}]}
       /\ UNCHANGED <<world, ctxs, heap, injectCache, mapCache, mapCalls, depInjectCache,
                      circProtect, returned, thrown, resolved, made, ran, called, traced>>
  ELSE IF providers = <<>>
  THEN /\ Cardinality(provided) < MaxProvide
       /\ provided' = provided \cup
            {[c |-> c, providers |-> providers, ok |-> TRUE, err |-> "",
              ctx |-> c, memo |-> DOMAIN injectCache[c]]}
       /\ UNCHANGED <<world, ctxs, heap, injectCache, mapCache, mapCalls, depInjectCache,
                      circProtect, returned, thrown, resolved, made, ran, called, traced>>
  ELSE /\ Len(ctxs) < 1 + MaxCtxOf(world)
       /\ createDI(ctxs[c] \o providers)
       /\ provided' = provided \cup
            {[c |-> c, providers |-> providers, ok |-> TRUE, err |-> "",
              ctx |-> Len(ctxs'), memo |-> DOMAIN injectCache'[Len(ctxs')]]}
       /\ UNCHANGED <<world, heap, mapCalls, depInjectCache, circProtect, returned,
                      thrown, resolved, made, ran, called, traced>>

\* `typeof fn === "function" && fn instanceof Function`.
IsFunction(fn) == fn.form # "number"

\* fn.prototype: function expressions and declarations have one; arrow
\* functions, async functions and methods have none.
HasPrototype(fn) == fn.form = "function"

\* fn.apply(inject): fn runs once, with the inject of context c as `this`, and
\* its body returns this(fn.cls).
Apply(fn, st, c) ==
  Do(inject(st, c, fn.cls), LAMBDA r :
  [out |-> r, calls |-> 1, receiver |-> c, fnret |-> r.val])

run(st, c, fn) ==
  IF ~IsFunction(fn)
  THEN [out |-> Throw(st, "TypeError: must be a function", NoType),
        calls |-> 0, receiver |-> 0, fnret |-> 0]
  ELSE IF ~HasPrototype(fn)
  THEN [out |-> Throw(st, "TypeError: must not be arrow function", NoType),
        calls |-> 0, receiver |-> 0, fnret |-> 0]
  ELSE Apply(fn, st, c)

\* ctx.run(fn).
Run(c, fn) ==
  \E r \in {run(Start, c, fn)} :
  /\ Cardinality(ran) < MaxRun
  /\ Commit(r.out)
  /\ ran' = ran \cup {[c |-> c, fn |-> fn.form, ok |-> r.out.ok, err |-> r.out.err,
                       calls |-> r.calls, receiver |-> r.receiver,
                       fnret |-> r.fnret, ret |-> r.out.val]}
  /\ UNCHANGED <<world, ctxs, returned, thrown, made, provided, called, traced>>

Next ==
  \/ \E c \in DOMAIN ctxs, Class \in WorldTypes(world) : Inject(c, Class)
  \/ \E c \in DOMAIN ctxs, Class \in WorldNewTypes(world) : New(c, Class)
  \/ \E c \in DOMAIN ctxs, Class \in WorldMapTypes(world) : Map(c, Class)
  \/ \E c \in DOMAIN ctxs, providers \in WorldProviders(world) : Provide(c, providers)
  \/ \E c \in DOMAIN ctxs, fn \in WorldFns(world) : Run(c, fn)
  \/ \E o \in {r.val : r \in returned}, Class \in WorldCallTypes(world) :
       CallInstance(o, Class)

Spec == Init /\ [][Next]_vars

\* ------------------------------------------------------- what the claims use

\* The hooks of context c.
Hooks(c) == ctxs[c]

Backing(v) == getBackingInstance(heap, v)

\* The object that holds the state of the instance v: the object a stateful
\* wrapper forwards its properties to, and otherwise the undecorated object.
Data(v) == IF heap[Backing(v)].kind = "wrapper" THEN heap[Backing(v)].ref ELSE Backing(v)

\* Context c has a middleware whose createProxy decorates.
Decorates(c) == \E i \in DOMAIN Hooks(c) : Hooks(c)[i] = Middleware("Proxy")

\* Context c2 has the hooks of c1 with provider p folded in.
Derived(c1, c2, p) == c1 # c2 /\ Hooks(c2) = Append(Hooks(c1), p)

\* Object o is an instance of one of the declared dependencies of T.
IsDepOf(o, T) == \E i \in DOMAIN deps(T) : instanceOf(heap, o, Canon(deps(T)[i]))

\* ---------------------------------------------------------------------- C1

\* C1 as stated: two distinct Contexts that resolve every dependency of a
\* stateful type T to the same backing instances (the same key) return the
\* identical object from invoke(T).
C1_IdenticalObject ==
  \A r1 \in resolved, r2 \in resolved :
    (r1.c # r2.c /\ r1.cls = r2.cls /\ r1.key = r2.key) => r1.val = r2.val

\* C1 as amended: such Contexts return instances with the identical backing
\* instance, whichever is called first, and the identical object when neither
\* Context has a decorating createProxy.
C1_SameBackingInstance ==
  \A r1 \in resolved, r2 \in resolved :
    (r1.c # r2.c /\ r1.cls = r2.cls /\ r1.key = r2.key) =>
       /\ Backing(r1.val) = Backing(r2.val)
       /\ (~Decorates(r1.c) /\ ~Decorates(r2.c)) => r1.val = r2.val

\* Two Contexts without decoration have resolved the same stateful type with the
\* same key: one built the instance, the other found it.
C1_Witness ==
  \E r1 \in resolved, r2 \in resolved :
    /\ r1.c # r2.c /\ r1.cls = r2.cls /\ r1.key = r2.key /\ r1.key # <<>>
    /\ ~r1.hit /\ r2.hit
    /\ ~Decorates(r1.c) /\ ~Decorates(r2.c)

\* ---------------------------------------------------------------------- C2

\* Context c2 is c1 with a new instance o provided for a dependency of T, an
\* instance other than the one c1 resolved, and both have resolved T.
C2_Case(r1, r2) ==
  /\ r1.cls = r2.cls
  /\ \E o \in 1 .. Len(InitialHeap) :
       /\ Derived(r1.c, r2.c, InstanceProvider(o))
       /\ IsDepOf(o, r1.cls)
       /\ \A i \in DOMAIN r1.key : r1.key[i] # o

\* C2 as stated: c2.invoke(T) then builds a new instance, distinct from
\* c1.invoke(T) and with its own state.
C2_NewlyConstructed ==
  \A r1 \in resolved, r2 \in resolved :
    C2_Case(r1, r2) => (~r2.hit /\ r2.val # r1.val /\ Data(r2.val) # Data(r1.val))

\* C2 as amended: c2.invoke(T) returns an instance distinct from c1.invoke(T)
\* and with its own state; it is newly constructed unless another Context that
\* resolves the dependency to the same instance has built it before.
C2_DistinctInstance ==
  \A r1 \in resolved, r2 \in resolved :
    C2_Case(r1, r2) =>
      /\ r2.val # r1.val
      /\ Backing(r2.val) # Backing(r1.val)
      /\ Data(r2.val) # Data(r1.val)
      /\ r2.hit => \E r3 \in resolved :
                     /\ r3.c # r2.c /\ r3.cls = r2.cls /\ r3.key = r2.key /\ ~r3.hit
                     /\ Backing(r3.val) = Backing(r2.val)

\* A Context with the first MemStorage has resolved FriendStorage, and the
\* Context derived from it with the second MemStorage has built its own.
C2_Witness ==
  \E r1 \in resolved, r2 \in resolved :
    /\ C2_Case(r1, r2) /\ ~r2.hit
    /\ r1.key = <<1>> /\ r2.key = <<2>>

\* ---------------------------------------------------------------------- C3

\* C3: when Context c2 is c1 with an instance o provided for a type that is not
\* among the deps of stateful type T (nor T itself), and c1's providers supply
\* an instance for every dependency of T, c2.invoke(T) returns the singleton
\* c1.invoke(T) returned, with the same state.
C3_UnrelatedProviderKeepsSingleton ==
  \A r1 \in resolved, r2 \in resolved :
    ( /\ r1.cls = r2.cls
      /\ \A i \in DOMAIN deps(r1.cls) :
           getInstance(Hooks(r1.c), Len(Hooks(r1.c)), Canon(deps(r1.cls)[i])) # 0
      /\ \E o \in 1 .. Len(InitialHeap) :
           /\ Derived(r1.c, r2.c, InstanceProvider(o))
           /\ ~IsDepOf(o, r1.cls)
           /\ ~instanceOf(heap, o, r1.cls) )
    => (r1.val = r2.val /\ Data(r1.val) = Data(r2.val))

\* ---------------------------------------------------------------------- C4

\* C4: the getInstance of a Context made by provide(o) answers o for a type o
\* is an instance of and what the previous chain answers for any other type;
\* so a Context with two instance providers of unrelated types answers
\* invoke of the first one's type with the first one.
C4_InstanceProviderFolding ==
  /\ \A c \in DOMAIN ctxs : \A n \in DOMAIN Hooks(c) : \A T \in Types :
       Hooks(c)[n].kind = "instance" =>
         getInstance(Hooks(c), n, T) =
           IF instanceOf(heap, Hooks(c)[n].obj, T) THEN Hooks(c)[n].obj
           ELSE getInstance(Hooks(c), n - 1, T)
  /\ \A r \in returned : \A o1 \in 1 .. Len(InitialHeap), o2 \in 1 .. Len(InitialHeap) :
       ( /\ Hooks(r.c) = <<InstanceProvider(o1), InstanceProvider(o2)>>
         /\ instanceOf(heap, o1, Canon(r.cls))
         /\ ~instanceOf(heap, o2, Canon(r.cls)) )
       => r.val = o1

\* ---------------------------------------------------------------------- C5

\* The class the most recently provided class provider that is T or descends
\* from T names, and T itself when there is none.
MostRecent(hooks, T) ==
  LET S == {i \in DOMAIN hooks : /\ hooks[i].kind = "class"
                                 /\ (hooks[i].cls = T \/ Descends(hooks[i].cls, T))}
  IN IF S = {} THEN T ELSE hooks[CHOOSE i \in S : \A j \in S : j <= i].cls

\* C5: in every Context, mapClass(T) and the cached map(T) are the class of the
\* most recent class provider that equals T or descends from T, and T when no
\* provider does: after provide(X, Y), Y wins where both apply, X is reached
\* where only X applies.
C5_MostRecentWins ==
  \A c \in {x \in DOMAIN ctxs : \A i \in DOMAIN Hooks(x) : Hooks(x)[i] # Middleware("Flip")} :
    /\ \A T \in Types : mapClass(Hooks(c), Len(Hooks(c)), T) = MostRecent(Hooks(c), T)
    /\ \A T \in DOMAIN mapCache[c] : mapCache[c][T] = MostRecent(Hooks(c), T)

\* A Context built by provide(SubclassX, SubclassY) has mapped Base to SubclassY
\* and Mid, which only SubclassX descends from, to SubclassX.
C5_Witness ==
  \E c \in DOMAIN ctxs :
    /\ Hooks(c) = <<ClassProvider("SubclassX"), ClassProvider("SubclassY")>>
    /\ DOMAIN mapCache[c] = {"Base", "Mid"}
    /\ mapCache[c]["Base"] = "SubclassY"
    /\ mapCache[c]["Mid"] = "SubclassX"

\* ---------------------------------------------------------------------- C6

\* C6: whenever getInstance of Context c yields null for T, the instance
\* c.invoke(T) returned was built from the class c.mapClass(T).
C6_BuiltFromMappedClass ==
  \A r \in returned :
    (r.val > 0 /\ getInstance(Hooks(r.c), Len(Hooks(r.c)), Canon(r.cls)) = 0)
    => heap[Backing(r.val)].cls = mapClass(Hooks(r.c), Len(Hooks(r.c)), Canon(r.cls))

\* ---------------------------------------------------------------------- C7

\* C7: any two invoke(T) calls on one Context, for a type T that resolves
\* without deps, returned the identical instance.
C7_OneInstancePerContext ==
  \A r1 \in returned, r2 \in returned :
    (r1.c = r2.c /\ r1.cls = r2.cls /\ ~HasDeps(Canon(r1.cls))) => r1.val = r2.val

\* ---------------------------------------------------------------------- C8

\* C8: an instance new(T) returned is never one invoke returned, each new(T)
\* returns an object that did not exist before the call (so two calls return
\* distinct instances), and the call leaves every memo cache and the
\* dependent-singleton cache as they were.
C8_NewBypassesCaches ==
  /\ [](\A m \in made, r \in returned :
          m.val # r.val /\ Backing(m.val) # Backing(r.val))
  /\ [][made' # made =>
          /\ \A m \in made' \ made : m.val > Len(heap) /\ m.val \notin {x.val : x \in made}
          /\ injectCache' = injectCache
          /\ depInjectCache' = depInjectCache]_vars

\* One Context has answered new(T) twice and invoke(T) once.
C8_Witness ==
  \E m1 \in made, m2 \in made, r \in returned :
    /\ m1 # m2
    /\ m1.c = m2.c /\ m1.cls = m2.cls
    /\ r.c = m1.c /\ r.cls = m1.cls

\* ---------------------------------------------------------------------- C9

\* The instances the providers of Context c supply for type T.
Provided(c, T) ==
  {Hooks(c)[i].obj : i \in {j \in DOMAIN Hooks(c) : /\ Hooks(c)[j].kind = "instance"
                                                    /\ instanceOf(heap, Hooks(c)[j].obj, T)}}

RECURSIVE Reach(_, _)
Reach(T, n) ==
  IF n = 0 THEN {}
  ELSE LET direct == {Canon(deps(T)[i]) : i \in DOMAIN deps(T)}
       IN direct \cup UNION {Reach(U, n - 1) : U \in direct}

\* The types on a dependency cycle through T (empty when T is on none).
CycleOf(T) ==
  {U \in Reach(T, Cardinality(Types)) : T \in Reach(U, Cardinality(Types))}

\* Context c has no instance provider for a type on the cycle through T.
NoInstanceOnCycle(c, T) == \A U \in CycleOf(T) : Provided(c, U) = {}

\* C10: on a Context with no instance provider for a type on the cycle, invoke
\* of a type on a dependency cycle never returns: it fails with the
\* circular-dependency error, which names a type on the cycle, after at most
\* one nested resolution per type on the cycle plus the one that fails.
C10_CycleDetected ==
  /\ \A r \in returned :
       NoInstanceOnCycle(r.c, Canon(r.cls)) => CycleOf(Canon(r.cls)) = {}
  /\ \A t \in thrown :
       (CycleOf(Canon(t.cls)) # {} /\ NoInstanceOnCycle(t.c, Canon(t.cls))) =>
         /\ t.err = "Circular deps"
         /\ t.errcls \in CycleOf(Canon(t.cls))
         /\ t.active <= Cardinality(CycleOf(Canon(t.cls)))
         /\ t.depth <= Cardinality(CycleOf(Canon(t.cls))) + 1

\* invoke has failed on the two-type cycle, on the self-dependency and on the
\* three-type cycle.
C10_Witness ==
  /\ \E t \in thrown : /\ t.cls = "A" /\ t.err = "Circular deps" /\ t.depth = 3
                        /\ NoInstanceOnCycle(t.c, "A")
  /\ \E t \in thrown : t.cls = "Self" /\ t.err = "Circular deps" /\ t.depth = 2
  /\ \E t \in thrown : t.cls = "P" /\ t.err = "Circular deps" /\ t.depth = 4

\* --------------------------------------------------------------------- C11

\* C11: between calls the active-resolution set is empty, as it was before the
\* first call, whether the calls returned or threw; and every step leaves it
\* as it found it, so the circular-dependency error is only ever raised for a
\* type that is on a dependency cycle.
C11_GuardReleased ==
  /\ [](circProtect = {})
  /\ [][circProtect' = circProtect]_vars
  /\ [](\A t \in thrown : t.err = "Circular deps" => CycleOf(Canon(t.cls)) # {})

\* An invoke has thrown after it had added two types to the active-resolution
\* set; the set is empty.
C11_Witness ==
  /\ \E t \in thrown : t.err = "Circular deps" /\ t.active >= 2
  /\ circProtect = {}

\* --------------------------------------------------------------------- C12

\* C12: no step changes the hook chain of an existing Context; a provide leaves
\* the class-mapping cache and the memo cache of every existing Context as they
\* were; and an invoke or new on one Context leaves the caches of every other
\* Context as they were, so what a derived Context overrides stays in it.
C12_DerivationLeavesContexts ==
  [][ /\ \A c \in DOMAIN ctxs : c \in DOMAIN ctxs' /\ ctxs'[c] = ctxs[c]
      /\ Len(ctxs') > Len(ctxs) =>
           \A c \in DOMAIN ctxs : /\ injectCache'[c] = injectCache[c]
                                  /\ mapCache'[c] = mapCache[c]
      /\ \A r \in (returned' \ returned) \cup (thrown' \ thrown) \cup (made' \ made) :
           \A c \in DOMAIN ctxs :
             c # r.c => (injectCache'[c] = injectCache[c] /\ mapCache'[c] = mapCache[c])
    ]_vars

\* A Context and one derived from it have each memoized their own instance of
\* the same type.
C12_Witness ==
  \E c1 \in DOMAIN ctxs, c2 \in DOMAIN ctxs, T \in Types \ {"DIContext"} :
    /\ Hooks(c1) # Hooks(c2) /\ IsPrefix(Hooks(c1), Hooks(c2))
    /\ T \in DOMAIN injectCache[c1] /\ T \in DOMAIN injectCache[c2]
    /\ injectCache[c1][T] # injectCache[c2][T]
    /\ T \in DOMAIN mapCache[c1]

\* --------------------------------------------------------------------- C13

C14_AlwaysDecorated ==
  /\ \A r \in returned : (r.val > 0 /\ Decorates(r.c)) => heap[r.val].kind = "proxy"
  /\ \A m \in made : Decorates(m.c) => heap[m.val].kind = "proxy"

\* --------------------------------------------------------------------- C15

\* C15: where a middleware that returns only createProxy is folded in, mapClass
\* and getInstance answer as the chain before it does, and createProxy is the
\* middleware's, which wraps what the createProxy of the chain before it
\* returns.
C15_MiddlewareFolding ==
  \A c \in DOMAIN ctxs : \A n \in DOMAIN Hooks(c) :
    Hooks(c)[n] = Middleware("Proxy") =>
      /\ \A T \in Types :
           /\ mapClass(Hooks(c), n, T) = mapClass(Hooks(c), n - 1, T)
           /\ getInstance(Hooks(c), n, T) = getInstance(Hooks(c), n - 1, T)
      /\ \A o \in DOMAIN heap :
           LET prev == createProxy(Hooks(c), n - 1, Start, o)
               this == createProxy(Hooks(c), n, Start, o)
           IN /\ Len(this.st.heap) = Len(prev.st.heap) + 1
              /\ this.st.heap[this.val].kind = "proxy"
              /\ this.st.heap[this.val].ref = prev.val
              /\ SubSeq(this.st.heap, 1, Len(prev.st.heap)) = prev.st.heap

\* Contexts with a class provider and with an instance provider below a
\* middleware have each answered an invoke with a decorated instance of what
\* the provider names.
C15_Witness ==
  /\ \E r \in returned :
       /\ Hooks(r.c) = <<ClassProvider("MemStorage"), Middleware("Proxy")>>
       /\ heap[r.val].kind = "proxy" /\ heap[Backing(r.val)].cls = "MemStorage"
       /\ Backing(r.val) > Len(InitialHeap)
  /\ \E r \in returned :
       /\ Hooks(r.c) = <<InstanceProvider(1), Middleware("Proxy")>>
       /\ heap[r.val].kind = "proxy" /\ Backing(r.val) = 1

\* --------------------------------------------------------------------- C16

\* What is neither a class, a function nor an object: a primitive, or null.
NotAProvider(p) == p.kind = "primitive" \/ p = Null

\* C16: a provide call with a provider that is neither a class, a function nor
\* an object fails with the TypeError and returns no Context, wherever the
\* provider stands in the list; no Context has such a provider in its hooks.
C16_InvalidProviderFails ==
  /\ \A p \in provided :
       (\E i \in DOMAIN p.providers : NotAProvider(p.providers[i]))
       => (~p.ok /\ p.err = "TypeError" /\ p.ctx = 0)
  /\ \A c \in DOMAIN ctxs : \A i \in DOMAIN Hooks(c) : ~NotAProvider(Hooks(c)[i])

\* --------------------------------------------------------------------- C17

\* Context c has neither a class provider nor an instance provider for the
\* abstract class A.
UnmappedAbstract(c, A) ==
  /\ IsAbstract(A)
  /\ MostRecent(Hooks(c), A) = A
  /\ Provided(c, A) = {}

\* C17: on a Context with no class provider and no instance provider for an
\* abstract class A, invoke(A) returns no instance.
C17_AbstractFails ==
  \A r \in returned : ~UnmappedAbstract(r.c, Canon(r.cls))

\* --------------------------------------------------------------------- C18

\* C18: the memo cache of every Context holds the Context itself for
\* DIContext, and every invoke(DIContext) returned the Context it was called on.
C18_InvokeDIContext ==
  /\ \A c \in DOMAIN ctxs :
       "DIContext" \in DOMAIN injectCache[c] /\ injectCache[c]["DIContext"] = -c
  /\ \A r \in returned : r.cls = "DIContext" => r.val = -r.c

\* The default Context and a Context derived with providers have each
\* answered invoke(DIContext).
C18_Witness ==
  /\ \E r \in returned : r.cls = "DIContext" /\ r.c = 1
  /\ \E r \in returned : r.cls = "DIContext" /\ r.c > 1 /\ Hooks(r.c) # <<>>

\* --------------------------------------------------------------------- C19

\* C19: run(fn) with a function that takes a receiver has called fn once, with
\* the Context's injector as receiver, and returned what fn returned; run(fn)
\* with an arrow function or with what is no function has failed without
\* calling fn.
C19_RunCallsOnce ==
  \A x \in ran :
    /\ x.fn \in {"function", "async"} =>
         (x.ok /\ x.calls = 1 /\ x.receiver = x.c /\ x.ret = x.fnret)
    /\ x.fn \in {"arrow", "number"} => (~x.ok /\ x.calls = 0)

\* --------------------------------------------------------------------- C20

\* C20: on one Context, every invoke of a type and of the types redirected to
\* it returned the identical instance.
C20_RedirectedIsTarget ==
  \A r1 \in returned, r2 \in returned :
    (r1.c = r2.c /\ Canon(r1.cls) = Canon(r2.cls)) => r1.val = r2.val

\* --------------------------------------------------------------------- C21

\* getInstance of Context c answers with an instance for the type c.invoke(T)
\* resolves.
ShortCircuits(c, T) == getInstance(Hooks(c), Len(Hooks(c)), Canon(T)) # 0

\* The i-th step of trace t is an invoke that found no memo entry.
CallPastMemo(t, i) ==
  /\ t.log[i].ev = "call"
  /\ ~(i + 1 <= Len(t.log) /\ t.log[i + 1].ev = "memo")

\* C21: an invoke(T) that finds no memo entry and whose getInstance(T) is
\* non-null takes no other step than handing out that instance: it maps no
\* class, constructs nothing, resolves no dependency and leaves the
\* active-resolution set and the Trie untouched; and on a Context with an
\* instance provider for one type on a dependency cycle, invoke of the other
\* types on the cycle succeeds.
C21_ShortCircuitFirst ==
  /\ [](\A t \in traced : \A i \in DOMAIN t.log :
          (CallPastMemo(t, i) /\ ShortCircuits(t.c, t.log[i].cls)) =>
            /\ i + 1 <= Len(t.log)
            /\ t.log[i + 1].ev = "instance"
            /\ t.log[i + 1].cls = Canon(t.log[i].cls)
            /\ Backing(t.log[i + 1].val) =
                 getInstance(Hooks(t.c), Len(Hooks(t.c)), Canon(t.log[i].cls)))
  /\ [][\A t \in traced' \ traced :
          (CallPastMemo(t, 1) /\ ShortCircuits(t.c, t.cls)) =>
            /\ t.ok /\ Len(t.log) = 2 /\ t.active = 0
            /\ mapCache' = mapCache
            /\ depInjectCache' = depInjectCache
            /\ circProtect' = circProtect
            /\ \A o \in (DOMAIN heap') \ (DOMAIN heap) : heap'[o].kind = "proxy"]_vars
  /\ [](\A t \in traced :
          (\E U \in CycleOf(Canon(t.cls)) \ {Canon(t.cls)} : Provided(t.c, U) # {})
          => t.ok)

\* --------------------------------------------------------------------- C22

\* The step that ends an invoke that returns: a memo hit, an instance of
\* getInstance, a Trie hit, a Trie miss, or the construction of a type
\* without deps.
IsResult(e) ==
  \/ e.ev \in {"memo", "instance", "hit", "miss"}
  \/ e.ev = "new" /\ ~HasDeps(e.cls)

\* The invoke that the steps before position i, with `open` invokes still to
\* be matched, belong to (0 when the log has none).
RECURSIVE Opener(_, _, _)
Opener(log, i, open) ==
  IF i = 0 THEN 0
  ELSE IF log[i].ev = "call"
       THEN (IF open = 1 THEN i ELSE Opener(log, i - 1, open - 1))
       ELSE IF IsResult(log[i]) THEN Opener(log, i - 1, open + 1)
       ELSE Opener(log, i - 1, open)

\* The steps of trace t up to position j are: the invoke of T, then the
\* complete invokes of the first k dependencies of T, one after another in
\* declaration order, each of which returned the instance whose backing
\* instance stands at its position in key.
RECURSIVE DepsInOrder(_, _, _, _, _)
DepsInOrder(t, T, key, j, k) ==
  IF k = 0 THEN j >= 1 /\ t.log[j].ev = "call" /\ Canon(t.log[j].cls) = T
  ELSE /\ j >= 1 /\ IsResult(t.log[j])
       /\ key[k] = Backing(t.log[j].val)
       /\ LET i == Opener(t.log, j - 1, 1) IN
          /\ i >= 1 /\ t.log[i].cls = deps(T)[k]
          /\ DepsInOrder(t, T, key, i - 1, k - 1)

\* C22: every step of an invoke is taken on the Context it was called on;
\* every Trie lookup of a stateful type T, hit or miss, comes right after the
\* invokes of all the declared dependencies of T, made one after another in
\* declaration order, and its key is the tuple of the backing instances they
\* returned, in that order; and instances stored under different keys, such
\* as the same members in different positions, are different instances.
C22_DepsInOrderThenLookup ==
  /\ \A t \in traced : \A j \in DOMAIN t.log :
       /\ t.log[j].c = t.c
       /\ t.log[j].ev = "hit" =>
            /\ Len(t.log[j].key) = Len(deps(t.log[j].cls))
            /\ DepsInOrder(t, t.log[j].cls, t.log[j].key, j - 1, Len(t.log[j].key))
       /\ t.log[j].ev = "miss" =>
            /\ Len(t.log[j].key) = Len(deps(t.log[j].cls))
            /\ t.log[j - 1].ev = "new" /\ t.log[j - 1].cls = t.log[j].cls
            /\ DepsInOrder(t, t.log[j].cls, t.log[j].key, j - 2, Len(t.log[j].key))
  /\ \A r1 \in resolved, r2 \in resolved :
       (r1.cls = r2.cls /\ r1.key # r2.key) => Backing(r1.val) # Backing(r2.val)

\* Pair, with deps [Storage, MemStorage], has been built on a Context that
\* resolves them to the first and the second MemStorage, found again on
\* another such Context, and built anew on a Context that resolves them to
\* the second and the first.
C22_Witness ==
  \E r1 \in resolved, r2 \in resolved, r3 \in resolved :
    /\ r1.cls = "Pair" /\ r2.cls = "Pair" /\ r3.cls = "Pair"
    /\ r1.key = <<1, 2>> /\ ~r1.hit
    /\ r2.key = <<1, 2>> /\ r2.hit /\ r2.c # r1.c
    /\ r3.key = <<2, 1>> /\ ~r3.hit
    /\ \E t \in traced : t.c = r2.c /\ t.cls = "Pair" /\ Len(t.log) = 6

\* --------------------------------------------------------------------- C23

\* C23: all invokes that resolved type T with key K, on whatever Context, got
\* the one instance the Trie holds at (T, K); at most one of them found no
\* entry and ran the constructor; and no step removes or replaces an entry of
\* the Trie.
C23_WriteOnce ==
  /\ [](\A r1 \in resolved :
          /\ Get(depInjectCache, r1.cls, r1.key) = Backing(r1.val)
          /\ \A r2 \in resolved :
               (r1.cls = r2.cls /\ r1.key = r2.key) =>
                 /\ Backing(r1.val) = Backing(r2.val)
                 /\ (~r1.hit /\ ~r2.hit) => r1 = r2)
  /\ [][\A p \in DOMAIN depInjectCache :
          p \in DOMAIN depInjectCache' /\ depInjectCache'[p] = depInjectCache[p]]_vars

\* A stateful type has been built for one key and found again by another
\* Context, built for a second key, and the Trie holds both instances.
C23_Witness ==
  \E r1 \in resolved, r2 \in resolved, r3 \in resolved :
    /\ r1.cls = r2.cls /\ r1.key = r2.key /\ ~r1.hit /\ r2.hit
    /\ r3.cls = r1.cls /\ r3.key # r1.key /\ ~r3.hit
    /\ Get(depInjectCache, r1.cls, r1.key) = Backing(r1.val)
    /\ Get(depInjectCache, r3.cls, r3.key) = Backing(r3.val)
    /\ Backing(r1.val) # Backing(r3.val)

\* --------------------------------------------------------------------- C24

\* The invokes still in progress at step i of a log.
RECURSIVE Enclosing(_, _)
Enclosing(log, i) ==
  LET o == Opener(log, i - 1, 1) IN
  IF o = 0 THEN {} ELSE {o} \cup Enclosing(log, o)

\* No dependency cycle is reachable from T.
Acyclic(T) ==
  \A U \in Reach(T, Cardinality(Types)) \cup {T} : U \notin Reach(U, Cardinality(Types))

\* C24: an invoke of a type from which no dependency cycle is reachable never
\* fails with the circular-dependency error; and the error is only raised by
\* the invoke of a type with deps while an earlier invoke of that type is
\* still in progress.
C24_NoFalseCycle ==
  \A t \in traced :
    /\ Acyclic(Canon(t.cls)) => t.err # "Circular deps"
    /\ t.err = "Circular deps" =>
         LET n == Len(t.log) IN
         /\ ~t.ok
         /\ t.log[n].ev = "call" /\ Canon(t.log[n].cls) = t.errcls
         /\ HasDeps(t.errcls)
         /\ \E i \in Enclosing(t.log, n) : Canon(t.log[i].cls) = t.errcls

\* On one Context the invoke of Top has resolved Left, Right and, below each
\* of them, Bottom, with three types in progress at once; on another Context
\* it has resolved them again, every one through the guard.
C24_Witness ==
  \E t1 \in traced, t2 \in traced :
    /\ t1.cls = "Top" /\ t1.ok /\ t1.active = 3
    /\ Cardinality({i \in DOMAIN t1.log :
                       t1.log[i].ev = "call" /\ t1.log[i].cls = "Bottom"}) = 2
    /\ t2.cls = "Top" /\ t2.ok /\ t2.c # t1.c /\ t2.active = 3
    /\ \E i \in DOMAIN t2.log : t2.log[i].ev = "hit" /\ t2.log[i].cls = "Bottom"

\* --------------------------------------------------------------------- C25

\* C25: on every Context the mapClass hooks have been called at most once for
\* each type, exactly for the types in its class-mapping cache, which holds
\* what that first call answered, also where a later call would answer
\* differently; no step changes an entry of the cache; and every new(T) and
\* every construction by invoke(T) on the Context built from that entry.
C25_MappedOnce ==
  /\ [](\A c \in DOMAIN ctxs : \A T \in Types :
          /\ WeakMapGet(mapCalls, <<c, T>>) <= 1
          /\ T \in DOMAIN mapCache[c] <=> WeakMapGet(mapCalls, <<c, T>>) = 1
          /\ T \in DOMAIN mapCache[c] =>
               mapCache[c][T] = mapClass(Hooks(c), Len(Hooks(c)), T))
  /\ [][\A c \in DOMAIN mapCache : \A T \in DOMAIN mapCache[c] :
          T \in DOMAIN mapCache'[c] /\ mapCache'[c][T] = mapCache[c][T]]_vars
  /\ [](\A m \in made :
          /\ m.cls \in DOMAIN mapCache[m.c]
          /\ heap[Backing(m.val)].cls = mapCache[m.c][m.cls])
  /\ [](\A t \in traced : \A i \in DOMAIN t.log :
          t.log[i].ev = "new" =>
            /\ t.log[i].cls \in DOMAIN mapCache[t.c]
            /\ t.log[i].mapped = mapCache[t.c][t.log[i].cls]
            /\ heap[Backing(t.log[i].val)].cls = t.log[i].mapped)

\* A Context whose middleware would map Base to SubclassY on a second call
\* has answered map(Base), new(Base) twice and invoke(Base), all with
\* SubclassX, the answer of the first call.
C25_Witness ==
  \E c \in DOMAIN ctxs :
    /\ Hooks(c) = <<Middleware("Flip")>>
    /\ mapClassAgain(Hooks(c), Len(Hooks(c)), "Base") = "SubclassY"
    /\ mapCache[c] = [T \in {"Base"} |-> "SubclassX"]
    /\ mapCalls[<<c, "Base">>] = 1
    /\ \E m1 \in made, m2 \in made :
         /\ m1 # m2 /\ m1.c = c /\ m2.c = c
         /\ heap[Backing(m1.val)].cls = "SubclassX"
         /\ heap[Backing(m2.val)].cls = "SubclassX"
    /\ \E r \in returned : r.c = c /\ r.cls = "Base" /\ heap[Backing(r.val)].cls = "SubclassX"

\* --------------------------------------------------------------------- C26

\* What Context c has memoized for the i-th dependency of T.
DepOn(c, T, i) == WeakMapGet(injectCache[c], Canon(deps(T)[i]))

\* C26: the canonicalizer ends at an object without a back-reference, so that
\* applying it twice gives what applying it once gives; the Trie key of every
\* resolution is made of the backing instances of the dependencies as the
\* Context resolved them; and two Contexts that resolve every dependency of a
\* stateful type T to decorations of the same backing objects have the same
\* key and got the same singleton, with the same state.
C26_DecorationKeepsIdentity ==
  /\ \A o \in DOMAIN heap :
       /\ IsProxyFor(heap, Backing(o)) = 0
       /\ Backing(Backing(o)) = Backing(o)
  /\ \A r \in resolved : \A i \in DOMAIN deps(r.cls) :
       r.key[i] = Backing(DepOn(r.c, r.cls, i))
  /\ \A r1 \in resolved, r2 \in resolved :
       ( /\ r1.cls = r2.cls
         /\ \A i \in DOMAIN deps(r1.cls) :
              Backing(DepOn(r1.c, r1.cls, i)) = Backing(DepOn(r2.c, r2.cls, i)) )
       => /\ r1.key = r2.key
          /\ Backing(r1.val) = Backing(r2.val)
          /\ Data(r1.val) = Data(r2.val)

\* Two Contexts have resolved Storage to the first MemStorage, one decorated
\* once and one decorated twice, and FriendStorage to the same singleton.
C26_Witness ==
  \E r1 \in resolved, r2 \in resolved :
    /\ r1.cls = "FriendStorage" /\ r2.cls = "FriendStorage" /\ r1.c # r2.c
    /\ DepOn(r1.c, "FriendStorage", 1) # DepOn(r2.c, "FriendStorage", 1)
    /\ IsProxyFor(heap, DepOn(r1.c, "FriendStorage", 1)) = 1
    /\ IsProxyFor(heap, IsProxyFor(heap, DepOn(r2.c, "FriendStorage", 1))) = 1
    /\ r1.key = <<1>> /\ r2.key = <<1>>
    /\ Backing(r1.val) = Backing(r2.val)

\* --------------------------------------------------------------------- C27

\* The wrappers the default stateful construct function has made.
Wrappers == {o \in DOMAIN heap : heap[o].kind = "wrapper"}

\* The instances stored in the Trie.
Stored == {depInjectCache[p] : p \in DOMAIN depInjectCache} \ {WeakMapNode}

NoInstanceFor(c, T) == Provided(c, T) = {} /\ ~ShortCircuits(c, T)

\* C28: two distinct Contexts with no instance for a type T without deps have
\* returned distinct objects, with distinct backing instances, from
\* invoke(T); and the Trie has no entry for a type without deps.
C28_StatelessPerContext ==
  /\ \A r1 \in returned, r2 \in returned :
       ( /\ r1.c # r2.c /\ Canon(r1.cls) = Canon(r2.cls)
         /\ ~HasDeps(Canon(r1.cls))
         /\ NoInstanceFor(r1.c, Canon(r1.cls)) /\ NoInstanceFor(r2.c, Canon(r2.cls)) )
       => (r1.val # r2.val /\ Backing(r1.val) # Backing(r2.val))
  /\ \A p \in DOMAIN depInjectCache : HasDeps(p.cls)

\* Two Contexts have each built their own Storage, which has no deps, and the
\* Trie holds an instance of a type with deps.
C28_Witness ==
  /\ \E r1 \in returned, r2 \in returned :
       /\ r1.c # r2.c /\ r1.cls = "Storage" /\ r2.cls = "Storage"
       /\ NoInstanceFor(r1.c, "Storage") /\ NoInstanceFor(r2.c, "Storage")
       /\ heap[r1.val].kind = "plain" /\ heap[r2.val].kind = "plain"
       /\ r1.val > Len(InitialHeap) /\ r2.val > Len(InitialHeap)
  /\ Stored # {}

\* --------------------------------------------------------------------- C29

\* The types whose invoke was in progress when trace t ended.
Unfinished(t) ==
  {t.log[i].cls : i \in Enclosing(t.log, Len(t.log) + 1)}
  \cup {Canon(t.log[i].cls) : i \in Enclosing(t.log, Len(t.log) + 1)}

\* C29: an invoke(T) that throws, be it the circular-dependency error, an
\* error of a dependency or an error of the constructor of T, leaves the memo
\* cache of every Context without a new entry for T and the Trie without a
\* new entry for T, and so for every type whose invoke it interrupted; the
\* active-resolution set is as before; and the memo cache of a Context holds
\* nothing for a type whose invoke has thrown on it.
C29_FailureLeavesNoTrace ==
  /\ [][\A t \in traced' \ traced :
          ~t.ok =>
            /\ t.cls \in Unfinished(t)
            /\ circProtect' = circProtect
            /\ \A T \in Unfinished(t) :
                 /\ \A c \in DOMAIN injectCache :
                      WeakMapGet(injectCache'[c], T) = WeakMapGet(injectCache[c], T)
                 /\ \A p \in DOMAIN depInjectCache' :
                      p.cls = T => p \in DOMAIN depInjectCache]_vars
  /\ [](\A t \in thrown :
          /\ WeakMapGet(injectCache[t.c], t.cls) = 0
          /\ WeakMapGet(injectCache[t.c], Canon(t.cls)) = 0)

\* invoke(Faulty) has thrown the error of the constructor after it had
\* resolved and memoized the dependency and mapped the class, and invoke(Self)
\* has thrown the circular-dependency error, raised by the invoke of its
\* dependency; the Context has memoized neither and the Trie holds neither.
C29_Witness ==
  \E t1 \in traced, t2 \in traced :
    /\ t1.cls = "Faulty" /\ ~t1.ok /\ t1.err = "Error"
    /\ WeakMapGet(injectCache[t1.c], "Storage") # 0
    /\ "Faulty" \in DOMAIN mapCache[t1.c]
    /\ WeakMapGet(injectCache[t1.c], "Faulty") = 0
    /\ t2.cls = "Self" /\ ~t2.ok /\ t2.err = "Circular deps" /\ t2.c = t1.c
    /\ WeakMapGet(injectCache[t2.c], "Self") = 0
    /\ \A p \in DOMAIN depInjectCache : p.cls \notin {"Faulty", "Self"}

\* --------------------------------------------------------------------- C30

\* C30: the instance of every resolution of a stateful type is bound to the
\* Context that built it, also where another Context got it by a Trie hit;
\* an invocation made through an instance resolves on the Context that built
\* the instance and touches the memo cache of no other Context, so that it
\* does not return the instance that only the Context of the Trie hit
\* provides; and no step changes an object, its bound Context included.
C30_KeepsBuildersInjector ==
  /\ [](\A r \in resolved :
          heap[Backing(r.val)].kind = "wrapper" =>
            \E r0 \in resolved :
              /\ ~r0.hit /\ r0.cls = r.cls /\ r0.key = r.key
              /\ Backing(r0.val) = Backing(r.val)
              /\ heap[Backing(r.val)].ctx = r0.c
              /\ ~r.hit => r0.c = r.c)
  /\ [](\A k \in called :
          /\ \A r0 \in resolved :
               (~r0.hit /\ Backing(r0.val) = Backing(k.o)) => k.c = r0.c
          /\ \A r2 \in returned :
               ( /\ r2.val = k.o /\ r2.c # k.c
                 /\ Provided(r2.c, k.cls) # {} /\ NoInstanceFor(k.c, k.cls) )
               => /\ k.ok /\ k.val \notin Provided(r2.c, k.cls)
                  /\ k.val = WeakMapGet(injectCache[k.c], k.cls)
                  /\ WeakMapGet(injectCache[r2.c], k.cls) \in Provided(r2.c, k.cls) \cup {0})
  /\ [][ /\ \A o \in DOMAIN heap : o \in DOMAIN heap' /\ heap'[o] = heap[o]
        /\ \A k \in called' \ called : \A c \in DOMAIN injectCache :
             c # k.c => injectCache'[c] = injectCache[c] ]_vars

\* The default Context has built Bottom; a Context with a Logger provider got
\* it by a Trie hit and answers invoke(Logger) with the provided Logger; the
\* invocation of Logger through the instance it got has returned the Logger
\* of the default Context.
C30_Witness ==
  \E r1 \in resolved, r2 \in resolved, k \in called, l \in returned :
    /\ r1.cls = "Bottom" /\ ~r1.hit /\ r1.c = 1
    /\ r2.cls = "Bottom" /\ r2.hit /\ r2.c # 1 /\ Hooks(r2.c) = <<InstanceProvider(3)>>
    /\ k.o = r2.val /\ k.cls = "Logger" /\ k.c = 1 /\ k.ok /\ k.val # 3
    /\ l.c = r2.c /\ l.cls = "Logger" /\ l.val = 3

\* --------------------------------------------------------------------- C31

\* The nesting of depInjectCache under every class is as deep as the class has
\* deps: an instance is stored at a key of that length, a nested WeakMap at a
\* shorter one.
TrieDepthIsDepsLength ==
  \A p \in DOMAIN depInjectCache :
    IF depInjectCache[p] = WeakMapNode
    THEN Len(p.key) < Len(deps(p.cls))
    ELSE Len(p.key) = Len(deps(p.cls))

\* C31: in every reachable state the nesting depth of the Trie under a type
\* equals the length of its deps, and no invoke, whether made on a Context, in
\* ctx.run or through an instance, has raised 'Deps inconsistency'.
C31_DepsInconsistencyUnreachable ==
  /\ TrieDepthIsDepsLength
  /\ \A t \in thrown : t.err # "INTERNAL: Deps inconsistency!"
  /\ \A r \in ran : r.err # "INTERNAL: Deps inconsistency!"

\* --------------------------------------------------------------------- C32

\* Context c is built from class providers only (defaultDIContext included).
SubclassOnly(c) == \A i \in DOMAIN Hooks(c) : Hooks(c)[i].kind = "class"

\* C32: in a Context built only from subclass providers, mapClass(T) is T or a
\* descendant of T and is mapped to itself, for every type T; and so are the
\* answers of ctx.map that the Context has cached.
C32_MapIdempotent ==
  \A c \in {x \in DOMAIN ctxs : SubclassOnly(x)} :
    /\ \A T \in Types :
         LET M == mapClass(Hooks(c), Len(Hooks(c)), T) IN
         /\ M = T \/ Descends(M, T)
         /\ mapClass(Hooks(c), Len(Hooks(c)), M) = M
    /\ \A T \in DOMAIN mapCache[c] :
         LET M == mapCache[c][T] IN
         /\ M = T \/ Descends(M, T)
         /\ M \in DOMAIN mapCache[c] => mapCache[c][M] = M

\* A Context built by provide(SubclassX, Mid) has mapped Base to Mid and Mid
\* to itself, although SubclassX descends from Mid; one built by
\* provide(Mid, SubclassX) has mapped Base and Mid to SubclassX and SubclassX
\* to itself.
C32_Witness ==
  \E c1 \in DOMAIN ctxs, c2 \in DOMAIN ctxs :
    /\ Hooks(c1) = <<ClassProvider("SubclassX"), ClassProvider("Mid")>>
    /\ {"Base", "Mid"} \subseteq DOMAIN mapCache[c1]
    /\ mapCache[c1]["Base"] = "Mid" /\ mapCache[c1]["Mid"] = "Mid"
    /\ Hooks(c2) = <<ClassProvider("Mid"), ClassProvider("SubclassX")>>
    /\ {"Base", "Mid", "SubclassX"} \subseteq DOMAIN mapCache[c2]
    /\ mapCache[c2]["Base"] = "SubclassX" /\ mapCache[c2]["Mid"] = "SubclassX"
    /\ mapCache[c2]["SubclassX"] = "SubclassX"

\* --------------------------------------------------------------------- C33

\* `static deps = []`: the class declares a deps list, and the list is empty.
EmptyDeps(T) == HasDeps(T) /\ deps(T) = <<>>

\* What invoke(T) has returned in the Contexts with no instance for T.
ReturnedFor(T) ==
  {r \in returned : Canon(r.cls) = T /\ NoInstanceFor(r.c, T)}

\* A type with an empty deps list is resolved through the Trie with the empty
\* key, has no other Trie entry than the instance stored for that key, and was
\* constructed by one invoke at most.
EmptyKeySingleEntry(T) ==
  /\ \A r \in ReturnedFor(T) :
       \E q \in resolved : /\ q.c = r.c /\ q.cls = T /\ q.key = <<>>
                           /\ Backing(q.val) = Backing(r.val)
  /\ \A q \in resolved : q.cls = T => q.key = <<>>
  /\ \A p \in DOMAIN depInjectCache :
       p.cls = T => p.key = <<>> /\ depInjectCache[p] # WeakMapNode
  /\ Cardinality({q \in resolved : q.cls = T /\ ~q.hit}) <= 1
  /\ \A q \in resolved :
       q.cls = T => /\ Get(depInjectCache, T, <<>>) = Backing(q.val)
                    /\ \E q0 \in resolved : q0.cls = T /\ ~q0.hit

\* C33 as stated: a type with an empty deps list takes the stateful path with
\* the empty key and a single Trie entry, and every Context without an
\* instance provider for it has returned one and the same object from invoke.
C33_OneAndTheSameInstance ==
  \A T \in {U \in Types : EmptyDeps(U)} :
    /\ EmptyKeySingleEntry(T)
    /\ \A r1 \in ReturnedFor(T), r2 \in ReturnedFor(T) : r1.val = r2.val

\* C33 as amended: the instances those Contexts have returned have one and the
\* same backing instance, and are one and the same object where neither
\* Context has a decorating createProxy.
C33_OneBackingInstance ==
  \A T \in {U \in Types : EmptyDeps(U)} :
    /\ EmptyKeySingleEntry(T)
    /\ \A r1 \in ReturnedFor(T), r2 \in ReturnedFor(T) :
         /\ Backing(r1.val) = Backing(r2.val)
         /\ (~Decorates(r1.c) /\ ~Decorates(r2.c)) => r1.val = r2.val

\* Three Contexts have returned Bottom: the one with the decorating middleware
\* built it and returned its proxy, the default Context and the one with a
\* Logger provided found it under the empty key and returned the wrapper.
C33_Witness ==
  \E r1 \in ReturnedFor("Bottom"), r2 \in ReturnedFor("Bottom"),
     r3 \in ReturnedFor("Bottom"), q \in resolved :
    /\ Decorates(r1.c) /\ r2.c = 1 /\ Hooks(r3.c) = <<InstanceProvider(3)>>
    /\ q.c = r1.c /\ q.cls = "Bottom" /\ ~q.hit /\ q.key = <<>> /\ q.val = r1.val
    /\ r1.val # r2.val /\ r2.val = r3.val
    /\ Backing(r1.val) = r2.val
    /\ Get(depInjectCache, "Bottom", <<>>) = r2.val

====
